---------------------------- MODULE Spec2Model ----------------------------
(***************************************************************************)
(* A model of the gtsam noise-model hierarchy (NoiseModel.h/.cpp) and of   *)
(* the LinearizedFactor adapter (LinearizedFactor.cpp).                    *)
(*                                                                         *)
(* A C++ double is modelled as an extended rational [n |-> _, d |-> _] in  *)
(* lowest terms: d > 0 is the finite value n/d, <<1,0>> is +infinity,      *)
(* <<-1,0>> is -infinity and <<0,0>> is NaN.  Finite arithmetic is exact   *)
(* (rounding is not modelled: "within tolerance" is equality here); the    *)
(* special values follow IEEE 754.  The sign of zero is not modelled.      *)
(***************************************************************************)
EXTENDS Integers, Sequences, FiniteSets, TLC

VARIABLES model, H, factor, wrapped, out

vars == <<model, H, factor, wrapped, out>>

(***************************************************************************)
(* Bounds of the model.                                                    *)
(***************************************************************************)
\* vectors and noise models have 1..MaxDim components
MaxDim == 2
\* vector components are drawn from -MaxVal..MaxVal
MaxVal == 1
\* standard deviations are drawn from 0..MaxSigma
MaxSigma == 2
\* the coordinates of an estimate are drawn from 0..MaxCoord
MaxCoord == 1

(***************************************************************************)
(* double arithmetic                                                       *)
(***************************************************************************)
Sgn(x) == IF x > 0 THEN 1 ELSE IF x < 0 THEN -1 ELSE 0

Abs(x) == IF x < 0 THEN -x ELSE x

RECURSIVE GCD(_, _)
GCD(a, b) == IF b = 0 THEN a ELSE GCD(b, a % b)

\* the double n/d, in lowest terms
Num(n, d) ==
    IF d = 0 THEN [n |-> Sgn(n), d |-> 0]
    ELSE LET g == GCD(Abs(n), Abs(d))
         IN  [n |-> (Sgn(d) * n) \div g, d |-> Abs(d) \div g]

D(i) == [n |-> i, d |-> 1]

Zero == D(0)
One == D(1)
Half == Num(1, 2)
PosInf == [n |-> 1, d |-> 0]
NegInf == [n |-> -1, d |-> 0]
NaN == [n |-> 0, d |-> 0]

IsNaN(x) == x = NaN
IsInf(x) == x \in {PosInf, NegInf}
IsFinite(x) == x.d > 0

DNeg(x) == [n |-> -x.n, d |-> x.d]

DAdd(x, y) ==
    IF IsNaN(x) \/ IsNaN(y) THEN NaN
    ELSE IF IsInf(x) /\ IsInf(y) THEN (IF x = y THEN x ELSE NaN)
    ELSE Num(x.n * y.d + y.n * x.d, x.d * y.d)

DSub(x, y) == DAdd(x, DNeg(y))

DMul(x, y) ==
    IF IsNaN(x) \/ IsNaN(y) THEN NaN
    ELSE Num(x.n * y.n, x.d * y.d)

\* 1.0 / x
DRecip(x) ==
    IF IsNaN(x) THEN NaN
    ELSE IF x.n = 0 THEN PosInf
    ELSE Num(Sgn(x.n) * x.d, Abs(x.n))

\* x / y
DDiv(x, y) == DMul(x, DRecip(y))

ISqrt(k) == CHOOSE r \in 0..k : r * r = k

\* sqrt(x), for the doubles whose root is a double of the model
DSqrt(x) ==
    IF IsNaN(x) \/ x.n < 0 THEN NaN
    ELSE IF x = PosInf THEN PosInf
    ELSE Num(ISqrt(x.n), ISqrt(x.d))

(***************************************************************************)
(* Vector and Matrix helpers (Vector.h, Matrix.h).  A Vector is a sequence *)
(* of doubles, a Matrix a sequence of rows.                                *)
(***************************************************************************)
RECURSIVE SumSeq(_)
SumSeq(s) == IF s = <<>> THEN Zero ELSE DAdd(Head(s), SumSeq(Tail(s)))

VecOf(s) == [i \in 1..Len(s) |-> D(s[i])]

MatOf(m) == [i \in 1..Len(m) |-> VecOf(m[i])]

repeat(n, x) == [i \in 1..n |-> x]

zero(n) == repeat(n, Zero)

reciprocal(a) == [i \in 1..Len(a) |-> DRecip(a[i])]

esqrt(a) == [i \in 1..Len(a) |-> DSqrt(a[i])]

emul(a, b) == [i \in 1..Len(a) |-> DMul(a[i], b[i])]

\* elementwise division in which 0/0 is 0
ediv_(a, b) ==
    [i \in 1..Len(a) |->
        IF b[i] = Zero /\ a[i] = Zero THEN Zero ELSE DDiv(a[i], b[i])]

inner_prod(a, b) == SumSeq([i \in 1..Len(a) |-> DMul(a[i], b[i])])

VecAdd(a, b) == [i \in 1..Len(a) |-> DAdd(a[i], b[i])]

VecSub(a, b) == [i \in 1..Len(a) |-> DSub(a[i], b[i])]

VecNeg(a) == [i \in 1..Len(a) |-> DNeg(a[i])]

VecScale(s, a) == [i \in 1..Len(a) |-> DMul(a[i], s)]

NumCols(M) == IF M = <<>> THEN 0 ELSE Len(M[1])

Column(M, j) == [i \in 1..Len(M) |-> M[i][j]]

\* M * v
MatVec(M, v) == [i \in 1..Len(M) |-> inner_prod(M[i], v)]

\* A * B
MatMul(A, B) ==
    [i \in 1..Len(A) |-> [j \in 1..NumCols(B) |-> inner_prod(A[i], Column(B, j))]]

MatScale(s, M) == [i \in 1..Len(M) |-> VecScale(s, M[i])]

diag(v) ==
    [i \in 1..Len(v) |-> [j \in 1..Len(v) |-> IF i = j THEN v[i] ELSE Zero]]

\* row i of A scaled by v[i]
vector_scale(v, A) == [i \in 1..Len(A) |-> VecScale(v[i], A[i])]

\* x[i] of the solution of U x = b by back substitution, reading only the
\* diagonal and what is above it
RECURSIVE BackSubst(_, _, _)
BackSubst(U, b, i) ==
    LET n == Len(b)
        tail == [j \in 1..(n - i) |-> DMul(U[i][i + j], BackSubst(U, b, i + j))]
    IN  DDiv(DSub(b[i], SumSeq(tail)), U[i][i])

backSubstituteUpper(U, b) == [i \in 1..Len(b) |-> BackSubst(U, b, i)]

Transpose(M) == [j \in 1..NumCols(M) |-> Column(M, j)]

(***************************************************************************)
(* The noise models.  An object is a record of the fields of its class and *)
(* of its base classes; kind is its dynamic type.  A field the class does  *)
(* not have is <<>>.                                                       *)
(***************************************************************************)
NoModel == [kind |-> "none"]

\* Gaussian(sqrt_information): Base(sqrt_information.size1())
Gaussian(R) ==
    [kind |-> "Gaussian", dim_ |-> Len(R), sqrt_information_ |-> R,
     sigmas_ |-> <<>>, invsigmas_ |-> <<>>, sigma_ |-> <<>>, invsigma_ |-> <<>>]

Diagonal(sigmas) ==
    [Gaussian(diag(reciprocal(sigmas))) EXCEPT
        !.kind = "Diagonal", !.invsigmas_ = reciprocal(sigmas), !.sigmas_ = sigmas]

Constrained(sigmas) == [Diagonal(sigmas) EXCEPT !.kind = "Constrained"]

Isotropic(dim, sigma) ==
    [Diagonal(repeat(dim, sigma)) EXCEPT
        !.kind = "Isotropic", !.sigma_ = sigma, !.invsigma_ = DDiv(One, sigma)]

Unit(dim) == [Isotropic(dim, One) EXCEPT !.kind = "Unit"]

\* the named constructors
Gaussian_SqrtInformation(R) == Gaussian(R)

\* inverse_square_root and square_root_positive, for a diagonal argument
inverse_square_root(C) ==
    diag([i \in 1..Len(C) |-> DRecip(DSqrt(C[i][i]))])

square_root_positive(Q) ==
    diag([i \in 1..Len(Q) |-> DSqrt(Q[i][i])])

Gaussian_Covariance(covariance) == Gaussian(inverse_square_root(covariance))

Gaussian_Information(Q) == Gaussian(square_root_positive(Q))

Diagonal_Sigmas(sigmas) == Diagonal(sigmas)

Diagonal_Variances(variances) == Diagonal(esqrt(variances))

Diagonal_Precisions(precisions) == Diagonal_Variances(reciprocal(precisions))

Constrained_Mixed(sigmas) == Constrained(sigmas)

Constrained_All(dim) == Constrained_Mixed(repeat(dim, Zero))

Isotropic_Sigma(dim, sigma) == Isotropic(dim, sigma)

Isotropic_Variance(dim, variance) == Isotropic(dim, DSqrt(variance))

Isotropic_Precision(dim, precision) == Isotropic_Variance(dim, DDiv(One, precision))

Unit_Create(dim) == Unit(dim)

(***************************************************************************)
(* The member functions, one operator per override.                        *)
(***************************************************************************)
Gaussian_whiten(m, v) == MatVec(m.sqrt_information_, v)

Gaussian_unwhiten(m, v) == backSubstituteUpper(m.sqrt_information_, v)

Diagonal_whiten(m, v) == emul(v, m.invsigmas_)

Diagonal_unwhiten(m, v) == emul(v, m.sigmas_)

\* Constrained without its override of whiten
Constrained_whiten_NoOverride(m, v) == emul(v, m.invsigmas_)

Constrained_whiten(m, v) == ediv_(v, m.sigmas_)

Isotropic_whiten(m, v) == VecScale(m.invsigma_, v)

Isotropic_unwhiten(m, v) == VecScale(m.sigma_, v)

Unit_whiten(m, v) == v

Unit_unwhiten(m, v) == v

\* virtual dispatch of whiten
whiten(m, v) ==
    CASE m.kind = "Gaussian" -> Gaussian_whiten(m, v)
      [] m.kind = "Diagonal" -> Diagonal_whiten(m, v)
      [] m.kind = "Constrained" -> Constrained_whiten(m, v)
      [] m.kind = "Isotropic" -> Isotropic_whiten(m, v)
      [] m.kind = "Unit" -> Unit_whiten(m, v)

\* virtual dispatch of unwhiten: Constrained inherits Diagonal's
unwhiten(m, v) ==
    CASE m.kind = "Gaussian" -> Gaussian_unwhiten(m, v)
      [] m.kind \in {"Diagonal", "Constrained"} -> Diagonal_unwhiten(m, v)
      [] m.kind = "Isotropic" -> Isotropic_unwhiten(m, v)
      [] m.kind = "Unit" -> Unit_unwhiten(m, v)

Gaussian_Mahalanobis(m, v) ==
    LET w == whiten(m, v) IN inner_prod(w, w)

\* Mahalanobis returning the error 0.5 * distance squared
Isotropic_Mahalanobis_Half(m, v) ==
    LET dot == inner_prod(v, v) IN DMul(Half, DMul(DMul(dot, m.invsigma_), m.invsigma_))

Isotropic_Mahalanobis(m, v) ==
    LET dot == inner_prod(v, v) IN DMul(DMul(dot, m.invsigma_), m.invsigma_)

Unit_Mahalanobis(m, v) == inner_prod(v, v)

\* virtual dispatch of Mahalanobis: Diagonal and Constrained inherit Gaussian's
Mahalanobis(m, v) ==
    CASE m.kind \in {"Gaussian", "Diagonal", "Constrained"} -> Gaussian_Mahalanobis(m, v)
      [] m.kind = "Isotropic" -> Isotropic_Mahalanobis(m, v)
      [] m.kind = "Unit" -> Unit_Mahalanobis(m, v)

\* what a call that takes a Matrix does: the value it returns, or the
\* exception it throws
Returns(x) == [throws |-> "none", val |-> x]

Throws(e) == [throws |-> e, val |-> <<>>]

Gaussian_Whiten(m, M) == Returns(MatMul(m.sqrt_information_, M))

Diagonal_Whiten(m, M) == Returns(vector_scale(m.invsigmas_, M))

Constrained_Whiten(m, M) == Throws("logic_error")

Isotropic_Whiten(m, M) == Returns(MatScale(m.invsigma_, M))

Unit_Whiten(m, M) == Returns(M)

Whiten(m, M) ==
    CASE m.kind = "Gaussian" -> Gaussian_Whiten(m, M)
      [] m.kind = "Diagonal" -> Diagonal_Whiten(m, M)
      [] m.kind = "Constrained" -> Constrained_Whiten(m, M)
      [] m.kind = "Isotropic" -> Isotropic_Whiten(m, M)
      [] m.kind = "Unit" -> Unit_Whiten(m, M)

\* WhitenInPlace(H): the new value of H in val, or the exception thrown (and
\* then H is as it was)
Gaussian_WhitenInPlace(m, M) == Returns(MatMul(m.sqrt_information_, M))

\* WhitenInPlace scaling by sigmas_ where invsigmas_ belongs
Diagonal_WhitenInPlace_BySigmas(m, M) == Returns(vector_scale(m.sigmas_, M))

Diagonal_WhitenInPlace(m, M) == Returns(vector_scale(m.invsigmas_, M))

\* Constrained without its override of WhitenInPlace
Constrained_WhitenInPlace_NoOverride(m, M) == Returns(vector_scale(m.invsigmas_, M))

Constrained_WhitenInPlace(m, M) == Throws("logic_error")

Isotropic_WhitenInPlace(m, M) == Returns(MatScale(m.invsigma_, M))

Unit_WhitenInPlace(m, M) == Returns(M)

WhitenInPlace(m, M) ==
    CASE m.kind = "Gaussian" -> Gaussian_WhitenInPlace(m, M)
      [] m.kind = "Diagonal" -> Diagonal_WhitenInPlace(m, M)
      [] m.kind = "Constrained" -> Constrained_WhitenInPlace(m, M)
      [] m.kind = "Isotropic" -> Isotropic_WhitenInPlace(m, M)
      [] m.kind = "Unit" -> Unit_WhitenInPlace(m, M)

(***************************************************************************)
(* The inputs the callers draw from.                                       *)
(***************************************************************************)
Dims == 1..MaxDim

Vals == -MaxVal..MaxVal

\* the vectors of the documented examples of Constrained::whiten
ExampleVecs == {VecOf(<<0, 2>>), VecOf(<<5, 2>>)}

Vecs(d) == [1..d -> {D(x) : x \in Vals}] \cup {v \in ExampleVecs : Len(v) = d}

SigmaVecs(d) == [1..d -> {D(s) : s \in 0..MaxSigma}]

SquareVecs(d) == [1..d -> {D(s * s) : s \in 0..MaxSigma}]

\* upper-triangular matrices, singular ones among them: any diagonal, and
\* one value everywhere above it
UpperMats(d) ==
    {[i \in 1..d |-> [j \in 1..d |->
        IF i = j THEN s[i] ELSE IF i < j THEN D(u) ELSE Zero]] :
            s \in SigmaVecs(d), u \in {0, 1}}

\* what SqrtInformation is handed: any square matrix is accepted
SqrtInfoMats(d) == UpperMats(d) \cup {Transpose(M) : M \in UpperMats(d)}

NoFactor == [kind |-> "none"]

NoWrapped == [kind |-> "none"]

NoOut == [op |-> "none"]

(***************************************************************************)
(* The noise models on vectors: construction through the named             *)
(* constructors, then whiten, unwhiten and Mahalanobis.                    *)
(***************************************************************************)
InitNoise ==
    /\ model = NoModel
    /\ H = <<>>
    /\ factor = NoFactor
    /\ wrapped = NoWrapped
    /\ out = NoOut

NewSqrtInformation ==
    /\ model = NoModel
    /\ \E d \in Dims : \E R \in SqrtInfoMats(d) : model' = Gaussian_SqrtInformation(R)
    /\ UNCHANGED <<H, factor, wrapped, out>>

NewCovariance ==
    /\ model = NoModel
    /\ \E d \in Dims : \E c \in SquareVecs(d) : model' = Gaussian_Covariance(diag(c))
    /\ UNCHANGED <<H, factor, wrapped, out>>

NewInformation ==
    /\ model = NoModel
    /\ \E d \in Dims : \E q \in SquareVecs(d) : model' = Gaussian_Information(diag(q))
    /\ UNCHANGED <<H, factor, wrapped, out>>

NewSigmas ==
    /\ model = NoModel
    /\ \E d \in Dims : \E sigmas \in SigmaVecs(d) : model' = Diagonal_Sigmas(sigmas)
    /\ UNCHANGED <<H, factor, wrapped, out>>

NewVariances ==
    /\ model = NoModel
    /\ \E d \in Dims : \E variances \in SquareVecs(d) :
        model' = Diagonal_Variances(variances)
    /\ UNCHANGED <<H, factor, wrapped, out>>

NewPrecisions ==
    /\ model = NoModel
    /\ \E d \in Dims : \E precisions \in SquareVecs(d) :
        model' = Diagonal_Precisions(precisions)
    /\ UNCHANGED <<H, factor, wrapped, out>>

NewMixed ==
    /\ model = NoModel
    /\ \E d \in Dims : \E sigmas \in SigmaVecs(d) : model' = Constrained_Mixed(sigmas)
    /\ UNCHANGED <<H, factor, wrapped, out>>

NewAll ==
    /\ model = NoModel
    /\ \E d \in Dims : model' = Constrained_All(d)
    /\ UNCHANGED <<H, factor, wrapped, out>>

NewSigma ==
    /\ model = NoModel
    /\ \E d \in Dims : \E s \in 0..MaxSigma : model' = Isotropic_Sigma(d, D(s))
    /\ UNCHANGED <<H, factor, wrapped, out>>

NewVariance ==
    /\ model = NoModel
    /\ \E d \in Dims : \E s \in 0..MaxSigma : model' = Isotropic_Variance(d, D(s * s))
    /\ UNCHANGED <<H, factor, wrapped, out>>

NewPrecision ==
    /\ model = NoModel
    /\ \E d \in Dims : \E s \in 0..MaxSigma : model' = Isotropic_Precision(d, D(s * s))
    /\ UNCHANGED <<H, factor, wrapped, out>>

NewUnit ==
    /\ model = NoModel
    /\ \E d \in Dims : model' = Unit_Create(d)
    /\ UNCHANGED <<H, factor, wrapped, out>>

NewModel ==
    \/ NewSqrtInformation
    \/ NewCovariance
    \/ NewInformation
    \/ NewSigmas
    \/ NewVariances
    \/ NewPrecisions
    \/ NewMixed
    \/ NewAll
    \/ NewSigma
    \/ NewVariance
    \/ NewPrecision
    \/ NewUnit

\* model.whiten(v)
CallWhiten ==
    /\ model # NoModel
    /\ out = NoOut
    /\ \E v \in Vecs(model.dim_) :
        out' = [op |-> "whiten", v |-> v, val |-> whiten(model, v), pre |-> <<>>]
    /\ UNCHANGED <<model, H, factor, wrapped>>

\* model.unwhiten(v)
CallUnwhiten ==
    /\ model # NoModel
    /\ out = NoOut
    /\ \E v \in Vecs(model.dim_) :
        out' = [op |-> "unwhiten", v |-> v, val |-> unwhiten(model, v), pre |-> <<>>]
    /\ UNCHANGED <<model, H, factor, wrapped>>

\* model.unwhiten(w) of the w that model.whiten(pre) has just returned
CallUnwhitenWhitened ==
    /\ model # NoModel
    /\ out.op = "whiten"
    /\ out' = [op |-> "unwhiten", v |-> out.val, val |-> unwhiten(model, out.val),
               pre |-> out.v]
    /\ UNCHANGED <<model, H, factor, wrapped>>

\* model.Mahalanobis(v)
CallMahalanobis ==
    /\ model # NoModel
    /\ out = NoOut
    /\ \E v \in Vecs(model.dim_) :
        out' = [op |-> "Mahalanobis", v |-> v, val |-> Mahalanobis(model, v),
                pre |-> <<>>]
    /\ UNCHANGED <<model, H, factor, wrapped>>

\* the caller is done with the result of its last call
DropResult ==
    /\ out # NoOut
    /\ out' = NoOut
    /\ UNCHANGED <<model, H, factor, wrapped>>

NextNoise ==
    \/ NewModel
    \/ CallWhiten
    \/ CallUnwhiten
    \/ CallUnwhitenWhitened
    \/ CallMahalanobis
    \/ DropResult

SpecNoise == InitNoise /\ [][NextNoise]_vars

(***************************************************************************)
(* Isotropic and Unit models handed a vector of any length: their member   *)
(* functions read v alone (v * invsigma_, inner_prod(v, v), return v) and  *)
(* never the dimension of the model.                                       *)
(***************************************************************************)
AnyLengthVecs == UNION {Vecs(d) : d \in 1..(MaxDim + 1)}

\* model.whiten(v), v of any length
CallWhitenAnyLength ==
    /\ model # NoModel
    /\ out = NoOut
    /\ \E v \in AnyLengthVecs :
        out' = [op |-> "whiten", v |-> v, throws |-> "none", val |-> whiten(model, v)]
    /\ UNCHANGED <<model, H, factor, wrapped>>

\* model.unwhiten(v), v of any length
CallUnwhitenAnyLength ==
    /\ model # NoModel
    /\ out = NoOut
    /\ \E v \in AnyLengthVecs :
        out' = [op |-> "unwhiten", v |-> v, throws |-> "none", val |-> unwhiten(model, v)]
    /\ UNCHANGED <<model, H, factor, wrapped>>

\* model.Mahalanobis(v), v of any length
CallMahalanobisAnyLength ==
    /\ model # NoModel
    /\ out = NoOut
    /\ \E v \in AnyLengthVecs :
        out' = [op |-> "Mahalanobis", v |-> v, throws |-> "none",
                val |-> Mahalanobis(model, v)]
    /\ UNCHANGED <<model, H, factor, wrapped>>

NextIsotropic ==
    \/ NewSigma
    \/ NewVariance
    \/ NewPrecision
    \/ NewUnit
    \/ CallWhitenAnyLength
    \/ CallUnwhitenAnyLength
    \/ CallMahalanobisAnyLength
    \/ DropResult

SpecIsotropic == InitNoise /\ [][NextIsotropic]_vars

(***************************************************************************)
(* The noise models on matrices: a caller holds a Jacobian H, constructs a *)
(* model and calls Whiten(H) or WhitenInPlace(H) once.  out.arg is H as it *)
(* was handed over.                                                        *)
(***************************************************************************)
BinVecs(d) == [1..d -> {Zero, One}]

\* one column of any values, or two columns of zeros and ones
CallerMats(d) ==
    {[i \in 1..d |-> <<c[i]>>] : c \in Vecs(d)}
        \cup {[i \in 1..d |-> <<c[i], e[i]>>] : c \in BinVecs(d), e \in BinVecs(d)}

InitMatrix ==
    /\ model = NoModel
    /\ \E d \in Dims : H \in CallerMats(d)
    /\ factor = NoFactor
    /\ wrapped = NoWrapped
    /\ out = NoOut

\* a Constrained model throws before it reads H; the others multiply, which
\* needs as many rows as the model has dimensions
Conforms(m, M) == m.kind = "Constrained" \/ Len(M) = m.dim_

\* model.Whiten(H)
CallWhitenMatrix ==
    /\ model # NoModel
    /\ out = NoOut
    /\ Conforms(model, H)
    /\ LET r == Whiten(model, H)
       IN  out' = [op |-> "Whiten", arg |-> H, throws |-> r.throws, val |-> r.val]
    /\ UNCHANGED <<model, H, factor, wrapped>>

\* model.WhitenInPlace(H)
CallWhitenInPlace ==
    /\ model # NoModel
    /\ out = NoOut
    /\ Conforms(model, H)
    /\ LET r == WhitenInPlace(model, H)
       IN  /\ H' = IF r.throws = "none" THEN r.val ELSE H
           /\ out' = [op |-> "WhitenInPlace", arg |-> H, throws |-> r.throws,
                      val |-> <<>>]
    /\ UNCHANGED <<model, factor, wrapped>>

NextMatrix ==
    \/ NewModel
    \/ CallWhitenMatrix
    \/ CallWhitenInPlace

SpecMatrix == InitMatrix /\ [][NextMatrix]_vars

(***************************************************************************)
(* The collaborators of LinearizedFactor: keys, Values, Ordering and the   *)
(* linear factors in index space.                                          *)
(***************************************************************************)
Keys == {"x1", "x2", "x3"}

\* the tangent dimension of the variable of each key
KeyDim == [k \in Keys |-> IF k = "x3" THEN 1 ELSE 2]

\* a Values c is a function from the keys it holds to their values, each a
\* vector; c.exists(key) is key \in DOMAIN c and c.at(key) is c[key]
exists(c, key) == key \in DOMAIN c

\* linPt.localCoordinates_(newPt), of a vector-space value
localCoordinates_(linPt, newPt) == VecSub(newPt, linPt)

\* an Ordering is the sequence of its keys: key ord[i + 1] has index i
Ordering_size(ordering) == Len(ordering)

Ordering_key(ordering, idx) == ordering[idx + 1]

Ordering_at(ordering, key) == (CHOOSE i \in 1..Len(ordering) : ordering[i] = key) - 1

RECURSIVE SumInts(_)
SumInts(s) == IF s = <<>> THEN 0 ELSE Head(s) + SumInts(Tail(s))

\* a block view of a matrix: offsets[i] columns come before block i
BlockView(M, dims) ==
    [matrix |-> M,
     offsets |-> [i \in 1..(Len(dims) + 1) |-> SumInts(SubSeq(dims, 1, i - 1))]]

nBlocks(view) == Len(view.offsets) - 1

BlockDim(view, i) == view.offsets[i + 1] - view.offsets[i]

\* block i of a vertical block view, i from 1
VBlock(view, i) ==
    [r \in 1..Len(view.matrix) |->
        [c \in 1..BlockDim(view, i) |-> view.matrix[r][view.offsets[i] + c]]]

\* block (i, j) of a symmetric block view, i and j from 1
SBlock(view, i, j) ==
    [r \in 1..BlockDim(view, i) |->
        [c \in 1..BlockDim(view, j) |->
            view.matrix[view.offsets[i] + r][view.offsets[j] + c]]]

\* the blocks side by side
RECURSIVE HCat(_)
HCat(blocks) ==
    IF Len(blocks) = 1 THEN blocks[1]
    ELSE LET rest == HCat(Tail(blocks))
         IN  [r \in 1..Len(blocks[1]) |-> blocks[1][r] \o rest[r]]

AsColumn(v) == [r \in 1..Len(v) |-> <<v[r]>>]

\* JacobianFactor(terms, b, model)
JacobianFactor(terms, b, noise) ==
    [kind |-> "JacobianFactor",
     keys |-> [i \in 1..Len(terms) |-> terms[i][1]],
     Ab |-> BlockView(HCat([i \in 1..Len(terms) |-> terms[i][2]] \o <<AsColumn(b)>>),
                      [i \in 1..Len(terms) |-> NumCols(terms[i][2])] \o <<1>>),
     model |-> noise]

\* jacobian->matrix_augmented(weight): [A b], whitened by the factor's noise
\* model when weight is true
matrix_augmented(jacobian, weight) ==
    IF weight THEN WhitenInPlace(jacobian.model, jacobian.Ab.matrix).val
    ELSE jacobian.Ab.matrix

getDim(gaussian, i) ==
    IF gaussian.kind = "JacobianFactor" THEN BlockDim(gaussian.Ab, i)
    ELSE BlockDim(gaussian.info, i)

\* HessianFactor(js, Gs, gs, f): Gs holds the blocks (i, j), i <= j, row by row
GsIndex(n, i, j) == SumInts([k \in 1..(i - 1) |-> n - k + 1]) + (j - i) + 1

HessianFactor(js, Gs, gs, f) ==
    LET n == Len(js)
        dims == [i \in 1..n |-> Len(gs[i])] \o <<1>>
        offs == BlockView(<<>>, dims).offsets
        blk(p) == CHOOSE i \in 1..(n + 1) : offs[i] < p /\ p <= offs[i + 1]
        entry(p, q) ==
            LET i == blk(p)
                j == blk(q)
                r == p - offs[i]
                c == q - offs[j]
            IN  IF i > j THEN Zero
                ELSE IF j <= n THEN Gs[GsIndex(n, i, j)][r][c]
                ELSE IF i <= n THEN gs[i][r]
                ELSE f
    IN  [kind |-> "HessianFactor",
         keys |-> js,
         info |-> BlockView([p \in 1..offs[n + 2] |-> [q \in 1..offs[n + 2] |-> entry(p, q)]],
                            dims)]

(***************************************************************************)
(* LinearizedFactor.cpp                                                    *)
(***************************************************************************)
\* the loop of the base constructor without its else branch: an index the
\* ordering does not hold is passed over
RECURSIVE ExtractKeys_NoThrow(_, _, _, _)
ExtractKeys_NoThrow(indices, ordering, lin_points, i) ==
    IF i > Len(indices) THEN [fails |-> "none", keys |-> <<>>]
    ELSE LET idx == indices[i]
             rest == ExtractKeys_NoThrow(indices, ordering, lin_points, i + 1)
         IN  IF idx >= Ordering_size(ordering) THEN rest
             ELSE IF ~exists(lin_points, Ordering_key(ordering, idx))
                  THEN [fails |-> "no_value", keys |-> <<>>]
             ELSE [fails |-> rest.fails, keys |-> <<Ordering_key(ordering, idx)>> \o rest.keys]

\* what the loop of the base constructor does from position i on: the keys
\* recorded, or the failure that ends it
RECURSIVE ExtractKeys(_, _, _, _)
ExtractKeys(indices, ordering, lin_points, i) ==
    IF i > Len(indices) THEN [fails |-> "none", keys |-> <<>>]
    ELSE LET idx == indices[i] IN
        IF idx < Ordering_size(ordering)
        THEN LET key == Ordering_key(ordering, idx) IN
            IF ~exists(lin_points, key) THEN [fails |-> "no_value", keys |-> <<>>]
            ELSE LET rest == ExtractKeys(indices, ordering, lin_points, i + 1)
                 IN  [fails |-> rest.fails, keys |-> <<key>> \o rest.keys]
        ELSE [fails |-> "runtime_error", keys |-> <<>>]

\* LinearizedGaussianFactor(gaussian, ordering, lin_points): the base part of
\* the object, or the exception thrown
LinearizedGaussianFactor(gaussian, ordering, lin_points) ==
    LET got == ExtractKeys(gaussian.keys, ordering, lin_points, 1) IN
    IF got.fails # "none" THEN Throws(got.fails)
    ELSE Returns([keys_ |-> got.keys,
                  lin_points_ |-> [k \in {got.keys[i] : i \in 1..Len(got.keys)} |->
                                      lin_points[k]]])

Dims_(gaussian) == [i \in 1..Len(gaussian.keys) |-> getDim(gaussian, i)] \o <<1>>

\* the constructor taking [A b] as it stands, matrix_augmented(false)
LinearizedJacobianFactor_Unweighted(jacobian, ordering, lin_points) ==
    LET base == LinearizedGaussianFactor(jacobian, ordering, lin_points) IN
    IF base.throws # "none" THEN base
    ELSE Returns([kind |-> "LinearizedJacobianFactor",
                  keys_ |-> base.val.keys_,
                  lin_points_ |-> base.val.lin_points_,
                  Ab_ |-> BlockView(matrix_augmented(jacobian, FALSE), Dims_(jacobian))])

LinearizedJacobianFactor(jacobian, ordering, lin_points) ==
    LET base == LinearizedGaussianFactor(jacobian, ordering, lin_points) IN
    IF base.throws # "none" THEN base
    ELSE Returns([kind |-> "LinearizedJacobianFactor",
                  keys_ |-> base.val.keys_,
                  lin_points_ |-> base.val.lin_points_,
                  Ab_ |-> BlockView(matrix_augmented(jacobian, TRUE), Dims_(jacobian))])

LinearizedHessianFactor(hessian, ordering, lin_points) ==
    LET base == LinearizedGaussianFactor(hessian, ordering, lin_points) IN
    IF base.throws # "none" THEN base
    ELSE Returns([kind |-> "LinearizedHessianFactor",
                  keys_ |-> base.val.keys_,
                  lin_points_ |-> base.val.lin_points_,
                  info_ |-> BlockView(hessian.info.matrix, Dims_(hessian))])

\* the accessors of LinearizedFactor.h
size(f) == Len(f.keys_)

KeyPos(f, key) == CHOOSE i \in 1..Len(f.keys_) : f.keys_[i] = key

A(f, key) == VBlock(f.Ab_, KeyPos(f, key))

b(f) == Column(VBlock(f.Ab_, size(f) + 1), 1)

Jacobian_dim(f) == Len(f.Ab_.matrix)

constantTerm(f) == SBlock(f.info_, nBlocks(f.info_), nBlocks(f.info_))[1][1]

linearTerm(f) ==
    [p \in 1..f.info_.offsets[size(f) + 1] |->
        f.info_.matrix[p][f.info_.offsets[size(f) + 1] + 1]]

squaredTerm(f) ==
    [p \in 1..f.info_.offsets[size(f) + 1] |->
        [q \in 1..f.info_.offsets[size(f) + 1] |-> f.info_.matrix[p][q]]]

Hessian_dim(f) == f.info_.offsets[size(f) + 1]

\* M.selfadjointView<Eigen::Upper>()
selfadjointViewUpper(M) ==
    [p \in 1..Len(M) |-> [q \in 1..Len(M) |-> IF p <= q THEN M[p][q] ELSE M[q][p]]]

HasAll(f, c) == \A i \in 1..size(f) : exists(c, f.keys_[i])

\* the error vector after the first i keys of the loop
RECURSIVE ErrorVectorLoop(_, _, _)
ErrorVectorLoop(f, c, i) ==
    IF i = 0 THEN VecNeg(b(f))
    ELSE LET key == f.keys_[i]
             newPt == c[key]
             linPt == f.lin_points_[key]
             d == localCoordinates_(linPt, newPt)
         IN  VecAdd(ErrorVectorLoop(f, c, i - 1), MatVec(A(f, key), d))

LinearizedJacobianFactor_error_vector(f, c) ==
    IF ~HasAll(f, c) THEN Throws("ValuesKeyDoesNotExist")
    ELSE Returns(ErrorVectorLoop(f, c, size(f)))

\* error without the factor 0.5
LinearizedJacobianFactor_error_NoHalf(f, c) ==
    LET errorVector == LinearizedJacobianFactor_error_vector(f, c) IN
    IF errorVector.throws # "none" THEN errorVector
    ELSE Returns(inner_prod(errorVector.val, errorVector.val))

LinearizedJacobianFactor_error(f, c) ==
    LET errorVector == LinearizedJacobianFactor_error_vector(f, c) IN
    IF errorVector.throws # "none" THEN errorVector
    ELSE Returns(DMul(Half, inner_prod(errorVector.val, errorVector.val)))

\* linearize that numbers the terms by their position, not by the ordering
LinearizedJacobianFactor_linearize_ByPosition(f, c, ordering) ==
    LET terms == [i \in 1..size(f) |-> <<i - 1, A(f, f.keys_[i])>>]
        ev == LinearizedJacobianFactor_error_vector(f, c)
    IN  IF ev.throws # "none" THEN ev
        ELSE Returns(JacobianFactor(terms, VecNeg(ev.val), Unit_Create(Jacobian_dim(f))))

\* linearize that hands back the stored right-hand side
LinearizedJacobianFactor_linearize_SameRhs(f, c, ordering) ==
    LET terms == [i \in 1..size(f) |->
                    <<Ordering_at(ordering, f.keys_[i]), A(f, f.keys_[i])>>]
        ev == LinearizedJacobianFactor_error_vector(f, c)
    IN  IF ev.throws # "none" THEN ev
        ELSE Returns(JacobianFactor(terms, b(f), Unit_Create(Jacobian_dim(f))))

LinearizedJacobianFactor_linearize(f, c, ordering) ==
    LET terms == [i \in 1..size(f) |->
                    <<Ordering_at(ordering, f.keys_[i]), A(f, f.keys_[i])>>]
        ev == LinearizedJacobianFactor_error_vector(f, c)
    IN  IF ev.throws # "none" THEN ev
        ELSE Returns(JacobianFactor(terms, VecNeg(ev.val), Unit_Create(Jacobian_dim(f))))

\* dx after the first i keys of the loop: the deltas stacked in key order
RECURSIVE StackedDelta(_, _, _)
StackedDelta(f, c, i) ==
    IF i = 0 THEN <<>>
    ELSE LET key == f.keys_[i]
         IN  StackedDelta(f, c, i - 1) \o localCoordinates_(f.lin_points_[key], c[key])

Quadratic(M, x) == inner_prod(x, MatVec(M, x))

\* error reading the squared term as stored, without selfadjointView
LinearizedHessianFactor_error_AsStored(f, c) ==
    IF ~HasAll(f, c) THEN Throws("ValuesKeyDoesNotExist")
    ELSE LET dx == StackedDelta(f, c, size(f))
             ff == constantTerm(f)
             xtg == inner_prod(dx, linearTerm(f))
             xGx == Quadratic(squaredTerm(f), dx)
         IN  Returns(DMul(Half, DAdd(DSub(ff, DMul(D(2), xtg)), xGx)))

LinearizedHessianFactor_error(f, c) ==
    IF ~HasAll(f, c) THEN Throws("ValuesKeyDoesNotExist")
    ELSE LET dx == StackedDelta(f, c, size(f))
             ff == constantTerm(f)
             xtg == inner_prod(dx, linearTerm(f))
             xGx == Quadratic(selfadjointViewUpper(squaredTerm(f)), dx)
         IN  Returns(DMul(Half, DAdd(DSub(ff, DMul(D(2), xtg)), xGx)))

\* linearize that leaves the linear term where it was
LinearizedHessianFactor_linearize_SameG(f, c, ordering) ==
    IF ~HasAll(f, c) THEN Throws("ValuesKeyDoesNotExist")
    ELSE LET js == [i \in 1..size(f) |-> Ordering_at(ordering, f.keys_[i])]
             dx == StackedDelta(f, c, size(f))
             G == selfadjointViewUpper(squaredTerm(f))
             ff == DAdd(DSub(constantTerm(f), DMul(D(2), inner_prod(dx, linearTerm(f)))),
                       Quadratic(G, dx))
             g == linearTerm(f)
             n == nBlocks(f.info_) - 1
             gs == [i \in 1..n |->
                      SubSeq(g, f.info_.offsets[i] + 1, f.info_.offsets[i + 1])]
             pairs == [k \in 1..GsIndex(n, n, n) |->
                         CHOOSE ij \in (1..n) \X (1..n) :
                            ij[1] <= ij[2] /\ GsIndex(n, ij[1], ij[2]) = k]
             Gs == [k \in 1..Len(pairs) |-> SBlock(f.info_, pairs[k][1], pairs[k][2])]
         IN  Returns(HessianFactor(js, Gs, gs, ff))

LinearizedHessianFactor_linearize(f, c, ordering) ==
    IF ~HasAll(f, c) THEN Throws("ValuesKeyDoesNotExist")
    ELSE LET js == [i \in 1..size(f) |-> Ordering_at(ordering, f.keys_[i])]
             dx == StackedDelta(f, c, size(f))
             G == selfadjointViewUpper(squaredTerm(f))
             ff == DAdd(DSub(constantTerm(f), DMul(D(2), inner_prod(dx, linearTerm(f)))),
                       Quadratic(G, dx))
             g == VecSub(linearTerm(f), MatVec(G, dx))
             n == nBlocks(f.info_) - 1
             gs == [i \in 1..n |->
                      SubSeq(g, f.info_.offsets[i] + 1, f.info_.offsets[i + 1])]
             pairs == [k \in 1..GsIndex(n, n, n) |->
                         CHOOSE ij \in (1..n) \X (1..n) :
                            ij[1] <= ij[2] /\ GsIndex(n, ij[1], ij[2]) = k]
             Gs == [k \in 1..Len(pairs) |-> SBlock(f.info_, pairs[k][1], pairs[k][2])]
         IN  Returns(HessianFactor(js, Gs, gs, ff))

\* equal_with_abs_tol on doubles, vectors and matrices
WithinTol(x, y, tol) ==
    LET diff == DSub(x, y)
        t == DSub(tol, IF diff.n < 0 THEN DNeg(diff) ELSE diff)
    IN  IsFinite(diff) /\ t.n >= 0

VecWithinTol(v, w, tol) ==
    /\ Len(v) = Len(w)
    /\ \A p \in 1..Len(v) : WithinTol(v[p], w[p], tol)

equal_with_abs_tol(M, N, tol) ==
    /\ Len(M) = Len(N)
    /\ \A p \in 1..Len(M) : VecWithinTol(M[p], N[p], tol)

\* lin_points_.equals(other, tol): the same keys, each value within tol
Values_equals(c, other, tol) ==
    /\ DOMAIN c = DOMAIN other
    /\ \A k \in DOMAIN c : VecWithinTol(c[k], other[k], tol)

\* Base::equals(expected, tol): the keys, and for the Hessian variant the
\* constant term
Base_equals(f, expected, tol) ==
    /\ f.keys_ = expected.keys_
    /\ (f.kind = "LinearizedHessianFactor") =>
            WithinTol(constantTerm(f), constantTerm(expected), tol)

LinearizedJacobianFactor_equals(f, expected, tol) ==
    IF expected.kind # "LinearizedJacobianFactor" THEN FALSE
    ELSE LET thisMatrix == f.Ab_.matrix
             rhsMatrix == expected.Ab_.matrix
         IN  /\ Base_equals(f, expected, tol)
             /\ Values_equals(f.lin_points_, expected.lin_points_, tol)
             /\ equal_with_abs_tol(thisMatrix, rhsMatrix, tol)

\* M with its last diagonal entry set to 0.0
ZeroCorner(M) == [M EXCEPT ![Len(M)][Len(M)] = Zero]

\* equals comparing the matrices as stored, without selfadjointView
LinearizedHessianFactor_equals_AsStored(f, expected, tol) ==
    IF expected.kind # "LinearizedHessianFactor" THEN FALSE
    ELSE LET thisMatrix == ZeroCorner(f.info_.matrix)
             rhsMatrix == ZeroCorner(expected.info_.matrix)
         IN  /\ Base_equals(f, expected, tol)
             /\ Values_equals(f.lin_points_, expected.lin_points_, tol)
             /\ equal_with_abs_tol(thisMatrix, rhsMatrix, tol)

LinearizedHessianFactor_equals(f, expected, tol) ==
    IF expected.kind # "LinearizedHessianFactor" THEN FALSE
    ELSE LET thisMatrix == ZeroCorner(selfadjointViewUpper(f.info_.matrix))
             rhsMatrix == ZeroCorner(selfadjointViewUpper(expected.info_.matrix))
         IN  /\ Base_equals(f, expected, tol)
             /\ Values_equals(f.lin_points_, expected.lin_points_, tol)
             /\ equal_with_abs_tol(thisMatrix, rhsMatrix, tol)

(***************************************************************************)
(* The linear factors the callers wrap, written over keys; a caller builds *)
(* one in index space with an ordering.                                    *)
(***************************************************************************)
\* no noise on a template: Unit
JacobianTemplates ==
    { [keys |-> <<"x1", "x2">>,
       blocks |-> <<MatOf(<<<<1, 0>>, <<0, 1>>>>), MatOf(<<<<1, 0>>, <<0, 1>>>>)>>,
       rhs |-> VecOf(<<0, 0>>), sigmas |-> <<>>],
      [keys |-> <<"x3", "x1">>,
       blocks |-> <<MatOf(<<<<1>>, <<2>>>>), MatOf(<<<<1, -1>>, <<0, 2>>>>)>>,
       rhs |-> VecOf(<<1, -2>>), sigmas |-> <<>>],
      [keys |-> <<"x3", "x1">>,
       blocks |-> <<MatOf(<<<<1>>, <<2>>>>), MatOf(<<<<1, -1>>, <<0, 2>>>>)>>,
       rhs |-> VecOf(<<1, -2>>), sigmas |-> VecOf(<<1, 2>>)],
      [keys |-> <<"x3">>,
       blocks |-> <<MatOf(<<<<2>>>>)>>,
       rhs |-> VecOf(<<1>>), sigmas |-> <<>>] }

\* the augmented information matrix [[G, g], [g', f]]; only its upper
\* triangle is specified, what is below it is whatever the memory held
HessianTemplates ==
    { [keys |-> <<"x1", "x3">>, dims |-> <<2, 1, 1>>,
       info |-> MatOf(<<<<2, 1, 0, 1>>, <<7, 3, 1, 0>>, <<7, 7, 1, -1>>, <<7, 7, 7, 2>>>>)],
      [keys |-> <<"x3", "x1">>, dims |-> <<1, 2, 1>>,
       info |-> MatOf(<<<<1, 1, 0, -1>>, <<1, 3, 1, 0>>, <<0, 1, 2, 1>>, <<-1, 0, 1, 2>>>>)],
      [keys |-> <<"x1", "x2">>, dims |-> <<2, 2, 1>>,
       info |-> MatOf(<<<<1, 0, 1, 0, 0>>, <<0, 1, 0, 1, 0>>, <<0, 0, 1, 0, 0>>,
                        <<0, 0, 0, 1, 0>>, <<0, 0, 0, 0, 0>>>>)],
      [keys |-> <<"x3">>, dims |-> <<1, 1>>,
       info |-> MatOf(<<<<2, 1>>, <<0, 3>>>>)] }

Orderings == {<<"x1", "x2", "x3">>, <<"x3", "x1", "x2">>, <<"x2", "x3", "x1">>}

\* the ordering a factor was built with, or one that has lost its last keys
WrapOrderings(built) == {SubSeq(built, 1, n) : n \in 1..Len(built)}

BuildJacobian(t, built) ==
    JacobianFactor([i \in 1..Len(t.keys) |-> <<Ordering_at(built, t.keys[i]), t.blocks[i]>>],
                   t.rhs,
                   IF t.sigmas = <<>> THEN Unit_Create(Len(t.rhs))
                   ELSE Diagonal_Sigmas(t.sigmas))

BuildHessian(t, built) ==
    [kind |-> "HessianFactor",
     keys |-> [i \in 1..Len(t.keys) |-> Ordering_at(built, t.keys[i])],
     info |-> BlockView(t.info, t.dims)]

\* the coordinates of a variable's value
Coords == 0..MaxCoord

PlainVecs(d) == [1..d -> {D(x) : x \in Coords}]

KeySet(ks) == {ks[i] : i \in 1..Len(ks)}

\* the estimates that hold a value of the right type for each key of ks
Estimates(ks) ==
    {c \in [KeySet(ks) -> UNION {PlainVecs(d) : d \in {1, 2}}] :
        \A k \in KeySet(ks) : Len(c[k]) = KeyDim[k]}

\* the linearization points: every coordinate of a variable 0, or every one 1
LinPoints(ks) ==
    {c \in Estimates(ks) : \A k \in KeySet(ks) : c[k] \in {repeat(KeyDim[k], Zero),
                                                          repeat(KeyDim[k], One)}}

\* c without key
Without(c, key) == [k \in (DOMAIN c) \ {key} |-> c[k]]

\* what the caller hands to a constructor, and to a call: a value for every
\* key, or for every key but one
ConstructorValues(ks) ==
    LinPoints(ks) \cup {Without(c, k) : c \in LinPoints(ks), k \in KeySet(ks)}

CallValues(ks) == Estimates(ks) \cup {Without(c, ks[Len(ks)]) : c \in LinPoints(ks)}

\* an exception of the constructor leaves no object; a Values without the
\* key ends the constructor at its assert, or, where asserts are compiled
\* out, at the exception of Values::at
ConstructorOutcomes(r) ==
    IF r.throws = "no_value" THEN {"assertion", "ValuesKeyDoesNotExist"}
    ELSE {r.throws}

InitLin ==
    /\ model = NoModel
    /\ H = <<>>
    /\ factor = NoFactor
    /\ wrapped = NoWrapped
    /\ out = NoOut

Constructed(gaussian, ordering, lin_points, r) ==
    /\ wrapped' = [kind |-> gaussian.kind, gaussian |-> gaussian,
                   ordering |-> ordering, lin_points |-> lin_points]
    /\ factor' = IF r.throws = "none" THEN r.val ELSE NoFactor
    /\ \E e \in ConstructorOutcomes(r) : out' = [op |-> "construct", throws |-> e]

NewLinearizedJacobian ==
    /\ factor = NoFactor
    /\ wrapped = NoWrapped
    /\ \E t \in JacobianTemplates, built \in Orderings :
        \E ordering \in WrapOrderings(built), lin_points \in ConstructorValues(t.keys) :
            LET jacobian == BuildJacobian(t, built)
            IN  Constructed(jacobian, ordering, lin_points,
                            LinearizedJacobianFactor(jacobian, ordering, lin_points))
    /\ UNCHANGED <<model, H>>

NewLinearizedHessian ==
    /\ factor = NoFactor
    /\ wrapped = NoWrapped
    /\ \E t \in HessianTemplates, built \in Orderings :
        \E ordering \in WrapOrderings(built), lin_points \in ConstructorValues(t.keys) :
            LET hessian == BuildHessian(t, built)
            IN  Constructed(hessian, ordering, lin_points,
                            LinearizedHessianFactor(hessian, ordering, lin_points))
    /\ UNCHANGED <<model, H>>

Idle == out.op \in {"none", "construct"}

CallResult(op, c, ordering, r) ==
    out' = [op |-> op, c |-> c, ordering |-> ordering, throws |-> r.throws, val |-> r.val]

JacobianErrorVector ==
    /\ factor.kind = "LinearizedJacobianFactor"
    /\ Idle
    /\ \E c \in CallValues(factor.keys_) :
        CallResult("error_vector", c, <<>>, LinearizedJacobianFactor_error_vector(factor, c))
    /\ UNCHANGED <<model, H, factor, wrapped>>

JacobianError ==
    /\ factor.kind = "LinearizedJacobianFactor"
    /\ Idle
    /\ \E c \in CallValues(factor.keys_) :
        CallResult("error", c, <<>>, LinearizedJacobianFactor_error(factor, c))
    /\ UNCHANGED <<model, H, factor, wrapped>>

JacobianLinearize ==
    /\ factor.kind = "LinearizedJacobianFactor"
    /\ Idle
    /\ \E c \in CallValues(factor.keys_), ordering \in Orderings :
        CallResult("linearize", c, ordering,
                   LinearizedJacobianFactor_linearize(factor, c, ordering))
    /\ UNCHANGED <<model, H, factor, wrapped>>

HessianError ==
    /\ factor.kind = "LinearizedHessianFactor"
    /\ Idle
    /\ \E c \in CallValues(factor.keys_) :
        CallResult("error", c, <<>>, LinearizedHessianFactor_error(factor, c))
    /\ UNCHANGED <<model, H, factor, wrapped>>

\* relinearize that re-centres the receiver itself
HessianLinearize_InPlace ==
    /\ factor.kind = "LinearizedHessianFactor"
    /\ Idle
    /\ \E c \in CallValues(factor.keys_), ordering \in Orderings :
        LET r == LinearizedHessianFactor_linearize(factor, c, ordering)
        IN  /\ CallResult("linearize", c, ordering, r)
            /\ factor' = IF r.throws = "none"
                         THEN [factor EXCEPT !.info_.matrix = r.val.info.matrix,
                                             !.lin_points_ = c]
                         ELSE factor
    /\ UNCHANGED <<model, H, wrapped>>

HessianLinearize ==
    /\ factor.kind = "LinearizedHessianFactor"
    /\ Idle
    /\ \E c \in CallValues(factor.keys_), ordering \in Orderings :
        CallResult("linearize", c, ordering,
                   LinearizedHessianFactor_linearize(factor, c, ordering))
    /\ UNCHANGED <<model, H, factor, wrapped>>

NextLin ==
    \/ NewLinearizedJacobian
    \/ NewLinearizedHessian
    \/ JacobianErrorVector
    \/ JacobianError
    \/ JacobianLinearize
    \/ HessianError
    \/ HessianLinearize
    \/ DropResult

SpecLin == InitLin /\ [][NextLin]_vars

(***************************************************************************)
(* Properties of the noise models.                                         *)
(***************************************************************************)
\* the exception the UnsupportedOperation error of the specification is
UnsupportedOperation == "logic_error"

\* C1: Constrained whiten(v) is computed component by component: where
\* sigma[i] > 0 the result is v[i] / sigma[i] (the finite r with
\* r * sigma[i] = v[i]); where sigma[i] = 0 it is 0 when v[i] = 0 and an
\* infinity (with the sign of v[i]) when v[i] # 0.  With sigmas = [0, 1],
\* whiten([0, 2]) = [0, 2] and whiten([5, 2]) = [inf, 2].
C1_ConstrainedWhiten ==
    (out.op = "whiten" /\ model.kind = "Constrained") =>
        /\ Len(out.val) = model.dim_
        /\ \A i \in 1..model.dim_ :
            LET sigma == model.sigmas_[i]
                x == out.v[i]
                r == out.val[i]
            IN  /\ (IsFinite(sigma) /\ sigma.n > 0) =>
                        IsFinite(r) /\ DMul(r, sigma) = x
                /\ (sigma = Zero /\ x = Zero) => r = Zero
                /\ (sigma = Zero /\ x # Zero) =>
                        r = (IF x.n > 0 THEN PosInf ELSE NegInf)
        /\ model.sigmas_ = VecOf(<<0, 1>>) =>
            /\ out.v = VecOf(<<0, 2>>) => out.val = VecOf(<<0, 2>>)
            /\ out.v = VecOf(<<5, 2>>) => out.val = <<PosInf, D(2)>>

\* a violated constraint beside an ordinary component: whiten([5, 2]) under
\* sigmas [0, 1]
C1_Witness ==
    /\ model.kind = "Constrained"
    /\ model.sigmas_ = VecOf(<<0, 1>>)
    /\ out.op = "whiten"
    /\ out.v = VecOf(<<5, 2>>)
    /\ out.val = <<PosInf, D(2)>>

\* C2: for every Constrained model, whether or not a sigma is zero, and
\* every matrix H, Whiten(H) and WhitenInPlace(H) throw (UnsupportedOperation);
\* no matrix is returned and WhitenInPlace leaves H as it was.
C2_ConstrainedWhitenThrows ==
    (out.op \in {"Whiten", "WhitenInPlace"} /\ model.kind = "Constrained") =>
        /\ out.throws = UnsupportedOperation
        /\ out.val = <<>>
        /\ H = out.arg

\* WhitenInPlace has been called on a Constrained model none of whose
\* sigmas is zero, with a nonzero H
C2_Witness ==
    /\ model.kind = "Constrained"
    /\ \A i \in 1..model.dim_ : model.sigmas_[i] = D(2)
    /\ out.op = "WhitenInPlace"
    /\ out.throws = UnsupportedOperation
    /\ \E i \in 1..Len(H) : H[i][1] # Zero

(***************************************************************************)
(* equals: a constructed factor is compared with another factor.  The      *)
(* other factor is the receiver itself, the receiver with one entry of its *)
(* matrix moved, with one linearization point moved, with its keys in      *)
(* another order, or a factor of the other variant.                        *)
(***************************************************************************)
Tolerances == {Zero, One}

Moves == {1, 2}

BlockMatrix(f) == IF f.kind = "LinearizedJacobianFactor" THEN f.Ab_.matrix ELSE f.info_.matrix

WithMatrix(f, M) ==
    IF f.kind = "LinearizedJacobianFactor" THEN [f EXCEPT !.Ab_.matrix = M]
    ELSE [f EXCEPT !.info_.matrix = M]

Reverse(s) == [i \in 1..Len(s) |-> s[Len(s) + 1 - i]]

\* a factor of the other variant on the same keys
OtherVariant(f) ==
    IF f.kind = "LinearizedJacobianFactor"
    THEN [kind |-> "LinearizedHessianFactor", keys_ |-> f.keys_,
          lin_points_ |-> f.lin_points_, info_ |-> f.Ab_]
    ELSE [kind |-> "LinearizedJacobianFactor", keys_ |-> f.keys_,
          lin_points_ |-> f.lin_points_, Ab_ |-> f.info_]

Others(f) ==
    {f, OtherVariant(f), [f EXCEPT !.keys_ = Reverse(f.keys_)]}
    \cup {WithMatrix(f, [BlockMatrix(f) EXCEPT ![p][q] = DAdd(@, D(m))]) :
            p \in 1..Len(BlockMatrix(f)), q \in 1..NumCols(BlockMatrix(f)), m \in Moves}
    \cup {[f EXCEPT !.lin_points_[k][1] = DAdd(@, D(m))] :
            k \in DOMAIN f.lin_points_, m \in Moves}

JacobianEquals ==
    /\ factor.kind = "LinearizedJacobianFactor"
    /\ Idle
    /\ \E expected \in Others(factor), tol \in Tolerances :
        out' = [op |-> "equals", expected |-> expected, tol |-> tol,
                val |-> LinearizedJacobianFactor_equals(factor, expected, tol)]
    /\ UNCHANGED <<model, H, factor, wrapped>>

HessianEquals ==
    /\ factor.kind = "LinearizedHessianFactor"
    /\ Idle
    /\ \E expected \in Others(factor), tol \in Tolerances :
        out' = [op |-> "equals", expected |-> expected, tol |-> tol,
                val |-> LinearizedHessianFactor_equals(factor, expected, tol)]
    /\ UNCHANGED <<model, H, factor, wrapped>>

NextEquals ==
    \/ NewLinearizedJacobian
    \/ NewLinearizedHessian
    \/ JacobianEquals
    \/ HessianEquals

SpecEquals == InitLin /\ [][NextEquals]_vars

(***************************************************************************)
(* Every object and every public operation together: a caller has either a *)
(* noise model and vectors, a noise model and a Jacobian H, or a           *)
(* LinearizedFactor.                                                       *)
(***************************************************************************)
InitObjects ==
    /\ model = NoModel
    /\ H \in {<<>>} \cup UNION {CallerMats(d) : d \in Dims}
    /\ factor = NoFactor
    /\ wrapped = NoWrapped
    /\ out = NoOut

NextObjects ==
    \/ (H = <<>> /\ factor = NoFactor /\ wrapped = NoWrapped /\ NextNoise)
    \/ (H # <<>> /\ NextMatrix)
    \/ (H = <<>> /\ model = NoModel /\ NextLin)
    \/ (H = <<>> /\ model = NoModel /\ NextEquals)

SpecObjects == InitObjects /\ [][NextObjects]_vars

(***************************************************************************)
(* Construction from an estimate whose values have any dimension: the      *)
(* constructors take the dimensions of the blocks from the linear factor   *)
(* and the linearization points from the estimate, and compare neither.    *)
(***************************************************************************)
AnyShapeValues(ks) == [KeySet(ks) -> PlainVecs(1) \cup PlainVecs(2)]

NewLinearizedJacobianAnyShape ==
    /\ factor = NoFactor
    /\ wrapped = NoWrapped
    /\ \E t \in JacobianTemplates, built \in Orderings :
        \E ordering \in WrapOrderings(built), lin_points \in AnyShapeValues(t.keys) :
            LET jacobian == BuildJacobian(t, built)
            IN  Constructed(jacobian, ordering, lin_points,
                            LinearizedJacobianFactor(jacobian, ordering, lin_points))
    /\ UNCHANGED <<model, H>>

NewLinearizedHessianAnyShape ==
    /\ factor = NoFactor
    /\ wrapped = NoWrapped
    /\ \E t \in HessianTemplates, built \in Orderings :
        \E ordering \in WrapOrderings(built), lin_points \in AnyShapeValues(t.keys) :
            LET hessian == BuildHessian(t, built)
            IN  Constructed(hessian, ordering, lin_points,
                            LinearizedHessianFactor(hessian, ordering, lin_points))
    /\ UNCHANGED <<model, H>>

NextShapes ==
    \/ NewLinearizedJacobianAnyShape
    \/ NewLinearizedHessianAnyShape

SpecShapes == InitLin /\ [][NextShapes]_vars

\* the caller's re-centring step: relinearize at c under an ordering, and wrap
\* the linear factor returned with the same ordering at c; first is the factor
\* the chain of such steps started from, chained says that this step is not
\* the first of the chain
\* the orderings of a re-centring step: the plain one, and one that renumbers
\* every key
RewrapOrderings == {<<"x1", "x2", "x3">>, <<"x3", "x1", "x2">>}

Rewrapped(linear, c, ordering, r) ==
    /\ r.throws = "none"
    /\ factor' = r.val
    /\ wrapped' = [kind |-> linear.kind, gaussian |-> linear,
                   ordering |-> ordering, lin_points |-> c]
    /\ out' = [op |-> "rewrap", c |-> c, ordering |-> ordering,
               first |-> IF out.op = "rewrap" THEN out.first ELSE factor,
               chained |-> (out.op = "rewrap")]

JacobianRewrap ==
    /\ factor.kind = "LinearizedJacobianFactor"
    /\ \E c \in Estimates(factor.keys_), ordering \in RewrapOrderings :
        LET linear == LinearizedJacobianFactor_linearize(factor, c, ordering)
        IN  /\ linear.throws = "none"
            /\ Rewrapped(linear.val, c, ordering,
                         LinearizedJacobianFactor(linear.val, ordering, c))
    /\ UNCHANGED <<model, H>>

HessianRewrap ==
    /\ factor.kind = "LinearizedHessianFactor"
    /\ \E c \in Estimates(factor.keys_), ordering \in RewrapOrderings :
        LET linear == LinearizedHessianFactor_linearize(factor, c, ordering)
        IN  /\ linear.throws = "none"
            /\ Rewrapped(linear.val, c, ordering,
                         LinearizedHessianFactor(linear.val, ordering, c))
    /\ UNCHANGED <<model, H>>

NextRewrap ==
    \/ NewLinearizedJacobian
    \/ NewLinearizedHessian
    \/ JacobianRewrap
    \/ HessianRewrap

SpecRewrap == InitLin /\ [][NextRewrap]_vars

DecodingError == "runtime_error"

\* C3: Jacobian variant, every estimate that holds all the keys of the
\* factor: error_vector(estimate) is r = -b + sum over the keys i of
\* A_i * delta_i, delta_i the local coordinates of the estimate's value of key
\* i at the stored linearization point, and error(estimate) = 0.5 * <r, r>.
\* With two keys, A1 = A2 = the 2x2 identity, b = [0, 0], linearized at
\* x1 = x2 = 0, the error at x1 = (1, 0), x2 = (0, 0) is 0.5.
C3_JacobianError ==
    (/\ factor.kind = "LinearizedJacobianFactor"
     /\ out.op \in {"error", "error_vector"}
     /\ \A i \in 1..Len(factor.keys_) : factor.keys_[i] \in DOMAIN out.c) =>
        LET n == Len(factor.keys_)
            delta(i) == [p \in 1..KeyDim[factor.keys_[i]] |->
                            DSub(out.c[factor.keys_[i]][p],
                                 factor.lin_points_[factor.keys_[i]][p])]
            Ai(i) == A(factor, factor.keys_[i])
            r == [p \in 1..Len(factor.Ab_.matrix) |->
                    DAdd(DNeg(b(factor)[p]),
                         SumSeq([i \in 1..n |->
                            SumSeq([q \in 1..Len(delta(i)) |->
                                DMul(Ai(i)[p][q], delta(i)[q])])]))]
            I2 == MatOf(<<<<1, 0>>, <<0, 1>>>>)
        IN  /\ out.throws = "none"
            /\ (out.op = "error_vector") => (out.val = r)
            /\ (out.op = "error") => (out.val = DMul(Half, inner_prod(r, r)))
            /\ (/\ out.op = "error"
                /\ factor.keys_ = <<"x1", "x2">>
                /\ Ai(1) = I2 /\ Ai(2) = I2
                /\ b(factor) = VecOf(<<0, 0>>)
                /\ factor.lin_points_["x1"] = VecOf(<<0, 0>>)
                /\ factor.lin_points_["x2"] = VecOf(<<0, 0>>)
                /\ out.c["x1"] = VecOf(<<1, 0>>)
                /\ out.c["x2"] = VecOf(<<0, 0>>)) => (out.val = Half)

\* the example: identity blocks, b = 0, linearized at 0, x1 = (1, 0) and
\* x2 = (0, 0), error 0.5
C3_Witness ==
    /\ factor.kind = "LinearizedJacobianFactor"
    /\ factor.keys_ = <<"x1", "x2">>
    /\ factor.lin_points_["x1"] = VecOf(<<0, 0>>)
    /\ factor.lin_points_["x2"] = VecOf(<<0, 0>>)
    /\ out.op = "error"
    /\ DOMAIN out.c = {"x1", "x2"}
    /\ out.c["x1"] = VecOf(<<1, 0>>)
    /\ out.c["x2"] = VecOf(<<0, 0>>)
    /\ out.val = Half

\* C4: Hessian variant, every estimate that holds all the keys of the
\* factor: error(estimate) = 0.5 * (f - 2 * <dx, g> + dx' * G * dx), dx the
\* local coordinates of the estimate at the stored linearization points,
\* stacked in the key order of the factor, and G, g, f the stored squared
\* (symmetric, its upper triangle stored), linear and constant terms.
C4_HessianError ==
    (/\ factor.kind = "LinearizedHessianFactor"
     /\ out.op = "error"
     /\ \A i \in 1..Len(factor.keys_) : factor.keys_[i] \in DOMAIN out.c) =>
        LET n == Len(factor.keys_)
            off == factor.info_.offsets
            M == factor.info_.matrix
            d == off[n + 1]
            blk(p) == CHOOSE i \in 1..n : off[i] < p /\ p <= off[i + 1]
            dx == [p \in 1..d |->
                    DSub(out.c[factor.keys_[blk(p)]][p - off[blk(p)]],
                         factor.lin_points_[factor.keys_[blk(p)]][p - off[blk(p)]])]
            G(p, q) == IF p <= q THEN M[p][q] ELSE M[q][p]
            g == [p \in 1..d |-> M[p][d + 1]]
            f == M[d + 1][d + 1]
            xtg == SumSeq([p \in 1..d |-> DMul(dx[p], g[p])])
            xGx == SumSeq([p \in 1..d |->
                        SumSeq([q \in 1..d |-> DMul(DMul(dx[p], G(p, q)), dx[q])])])
        IN  /\ out.throws = "none"
            /\ out.val = DMul(Half, DAdd(DSub(f, DMul(D(2), xtg)), xGx))

\* the error of a two-key Hessian factor away from its linearization point,
\* at an estimate that moves both variables
C4_Witness ==
    /\ factor.kind = "LinearizedHessianFactor"
    /\ factor.keys_ = <<"x1", "x3">>
    /\ out.op = "error"
    /\ out.throws = "none"
    /\ DOMAIN out.c = {"x1", "x3"}
    /\ out.c["x1"] # factor.lin_points_["x1"]
    /\ out.c["x3"] # factor.lin_points_["x3"]
    /\ out.val # DMul(Half, constantTerm(factor))

\* C5: Jacobian variant: relinearize(estimate, ordering) returns a linear
\* factor with one term per key of keys(), in key order, each the index the
\* given ordering gives the key with the stored block A(key) unchanged; its
\* right-hand side is -error_vector(estimate), and its noise model is Unit of
\* the row dimension of the factor.
C5_JacobianRelinearize ==
    (/\ factor.kind = "LinearizedJacobianFactor"
     /\ out.op = "linearize"
     /\ \A i \in 1..Len(factor.keys_) : factor.keys_[i] \in DOMAIN out.c) =>
        LET n == Len(factor.keys_)
            rows == Len(factor.Ab_.matrix)
        IN  /\ out.throws = "none"
            /\ out.val.kind = "JacobianFactor"
            /\ Len(out.val.keys) = n
            /\ nBlocks(out.val.Ab) = n + 1
            /\ \A i \in 1..n :
                /\ out.ordering[out.val.keys[i] + 1] = factor.keys_[i]
                /\ VBlock(out.val.Ab, i) = A(factor, factor.keys_[i])
            /\ Column(VBlock(out.val.Ab, n + 1), 1) =
                    VecNeg(LinearizedJacobianFactor_error_vector(factor, out.c).val)
            /\ out.val.model.kind = "Unit"
            /\ out.val.model.dim_ = rows
            /\ out.val.model.sigma_ = One

\* relinearized under an ordering that renumbers the keys of the factor, at
\* an estimate away from the linearization point
C5_Witness ==
    /\ factor.kind = "LinearizedJacobianFactor"
    /\ factor.keys_ = <<"x3", "x1">>
    /\ out.op = "linearize"
    /\ out.throws = "none"
    /\ out.ordering # wrapped.ordering
    /\ out.val.keys # wrapped.gaussian.keys
    /\ out.c["x1"] # factor.lin_points_["x1"]
    /\ out.val.model.kind = "Unit"

\* C6: Hessian variant: relinearize(estimate, ordering) returns a Hessian
\* factor on the indices the given ordering gives keys(), in key order, with
\* f' = f - 2 * <dx, g> + dx' * G * dx, g' = g - G * dx cut per key at the
\* stored block offsets, and G' = G, every block (i, j), i <= j, copied; dx
\* is the stacked local coordinates of the estimate at the stored
\* linearization points.
C6_HessianRelinearize ==
    (/\ factor.kind = "LinearizedHessianFactor"
     /\ out.op = "linearize"
     /\ \A i \in 1..Len(factor.keys_) : factor.keys_[i] \in DOMAIN out.c) =>
        LET n == Len(factor.keys_)
            off == factor.info_.offsets
            M == factor.info_.matrix
            d == off[n + 1]
            blk(p) == CHOOSE i \in 1..n : off[i] < p /\ p <= off[i + 1]
            dx == [p \in 1..d |->
                    DSub(out.c[factor.keys_[blk(p)]][p - off[blk(p)]],
                         factor.lin_points_[factor.keys_[blk(p)]][p - off[blk(p)]])]
            G(p, q) == IF p <= q THEN M[p][q] ELSE M[q][p]
            g == [p \in 1..d |-> M[p][d + 1]]
            f == M[d + 1][d + 1]
            xtg == SumSeq([p \in 1..d |-> DMul(dx[p], g[p])])
            Gdx == [p \in 1..d |-> SumSeq([q \in 1..d |-> DMul(G(p, q), dx[q])])]
            xGx == SumSeq([p \in 1..d |-> DMul(dx[p], Gdx[p])])
            new == out.val.info
        IN  /\ out.throws = "none"
            /\ out.val.kind = "HessianFactor"
            /\ Len(out.val.keys) = n
            /\ \A i \in 1..n : out.ordering[out.val.keys[i] + 1] = factor.keys_[i]
            /\ new.offsets = off
            /\ new.matrix[d + 1][d + 1] = DAdd(DSub(f, DMul(D(2), xtg)), xGx)
            /\ \A i \in 1..n :
                Column(SBlock(new, i, n + 1), 1) =
                    [p \in 1..(off[i + 1] - off[i]) |->
                        DSub(g[off[i] + p], Gdx[off[i] + p])]
            /\ \A i \in 1..n : \A j \in i..n :
                SBlock(new, i, j) = SBlock(factor.info_, i, j)

\* relinearized away from the linearization point of both variables, under
\* an ordering that renumbers them: the linear term has moved
C6_Witness ==
    /\ factor.kind = "LinearizedHessianFactor"
    /\ factor.keys_ = <<"x1", "x3">>
    /\ out.op = "linearize"
    /\ out.throws = "none"
    /\ out.ordering # wrapped.ordering
    /\ out.c["x1"] # factor.lin_points_["x1"]
    /\ out.c["x3"] # factor.lin_points_["x3"]
    /\ Column(SBlock(out.val.info, 1, 3), 1) # Column(SBlock(factor.info_, 1, 3), 1)

\* C7, as stated: wrap a linear factor F with an ordering and an estimate
\* c0, then relinearize(c0, the same ordering): the result equals F, the
\* same indices, the same blocks, the same right-hand side (Jacobian), the
\* same linear and constant terms (Hessian).
C7_Idempotent_AsStated ==
    (/\ out.op = "linearize"
     /\ out.c = wrapped.lin_points
     /\ out.ordering = wrapped.ordering) =>
        /\ out.throws = "none"
        /\ out.val.kind = wrapped.gaussian.kind
        /\ out.val.keys = wrapped.gaussian.keys
        /\ (wrapped.kind = "JacobianFactor") =>
                (out.val.Ab = wrapped.gaussian.Ab)
        /\ (wrapped.kind = "HessianFactor") =>
                /\ out.val.info.offsets = wrapped.gaussian.info.offsets
                /\ \A i \in 1..nBlocks(out.val.info) : \A j \in i..nBlocks(out.val.info) :
                    SBlock(out.val.info, i, j) = SBlock(wrapped.gaussian.info, i, j)

\* C7, amended: after the same wrapping, relinearize(c0, the same ordering)
\* returns, for the Hessian variant, a factor with the indices of F and
\* every block (i, j), i <= j, of F, its linear and constant terms among
\* them; for the Jacobian variant, a factor with the indices of F whose
\* blocks and right-hand side are those of F whitened by the noise model of
\* F, under a Unit noise model: the blocks and right-hand side of F itself
\* when the noise model of F is Unit.
C7_Idempotent ==
    (/\ out.op = "linearize"
     /\ out.c = wrapped.lin_points
     /\ out.ordering = wrapped.ordering) =>
        /\ out.throws = "none"
        /\ out.val.kind = wrapped.gaussian.kind
        /\ out.val.keys = wrapped.gaussian.keys
        /\ (wrapped.kind = "JacobianFactor") =>
                /\ out.val.Ab.offsets = wrapped.gaussian.Ab.offsets
                /\ out.val.Ab.matrix =
                        Whiten(wrapped.gaussian.model, wrapped.gaussian.Ab.matrix).val
                /\ out.val.model = Unit(Len(wrapped.gaussian.Ab.matrix))
                /\ (wrapped.gaussian.model.kind = "Unit") =>
                        (out.val.Ab = wrapped.gaussian.Ab)
        /\ (wrapped.kind = "HessianFactor") =>
                /\ out.val.info.offsets = wrapped.gaussian.info.offsets
                /\ \A i \in 1..nBlocks(out.val.info) : \A j \in i..nBlocks(out.val.info) :
                    SBlock(out.val.info, i, j) = SBlock(wrapped.gaussian.info, i, j)

\* a Jacobian factor under a Diagonal noise model, wrapped and relinearized
\* at the same estimate with the same ordering: the blocks returned are not
\* the blocks of the factor
C7_Witness ==
    /\ wrapped.kind = "JacobianFactor"
    /\ wrapped.gaussian.model.kind = "Diagonal"
    /\ out.op = "linearize"
    /\ out.throws = "none"
    /\ out.c = wrapped.lin_points
    /\ out.ordering = wrapped.ordering
    /\ out.val.Ab.matrix # wrapped.gaussian.Ab.matrix

\* C8, as stated: construction fails with a DecodingError whenever an index
\* of the linear factor cannot be resolved through the ordering, and no
\* object results; when every index resolves, keys()[i] is the key of index
\* i of the linear factor and its linearization point is the estimate's
\* value of that key.
C8_Construction_AsStated ==
    (out.op = "construct") =>
        LET indices == wrapped.gaussian.keys
            resolves(i) == indices[i] < Len(wrapped.ordering)
        IN  /\ (\E i \in 1..Len(indices) : ~resolves(i)) =>
                    (out.throws = DecodingError /\ factor = NoFactor)
            /\ (\A i \in 1..Len(indices) : resolves(i)) =>
                    /\ out.throws = "none"
                    /\ factor.kind = "Linearized" \o wrapped.kind
                    /\ Len(factor.keys_) = Len(indices)
                    /\ \A i \in 1..Len(indices) :
                        /\ factor.keys_[i] = wrapped.ordering[indices[i] + 1]
                        /\ factor.lin_points_[factor.keys_[i]] =
                                wrapped.lin_points[factor.keys_[i]]

\* C8, amended: the same, for an estimate that holds a value for every key
\* the ordering resolves an index of the linear factor to; and whatever the
\* estimate, no object results when an index cannot be resolved.
C8_Construction ==
    (out.op = "construct") =>
        LET indices == wrapped.gaussian.keys
            resolves(i) == indices[i] < Len(wrapped.ordering)
            holdsAll == \A i \in 1..Len(indices) :
                            resolves(i) =>
                                wrapped.ordering[indices[i] + 1] \in DOMAIN wrapped.lin_points
        IN  /\ (\E i \in 1..Len(indices) : ~resolves(i)) =>
                    /\ out.throws # "none"
                    /\ factor = NoFactor
                    /\ holdsAll => (out.throws = DecodingError)
            /\ (holdsAll /\ \A i \in 1..Len(indices) : resolves(i)) =>
                    /\ out.throws = "none"
                    /\ factor.kind = "Linearized" \o wrapped.kind
                    /\ Len(factor.keys_) = Len(indices)
                    /\ \A i \in 1..Len(indices) :
                        /\ factor.keys_[i] = wrapped.ordering[indices[i] + 1]
                        /\ factor.lin_points_[factor.keys_[i]] =
                                wrapped.lin_points[factor.keys_[i]]

\* a Hessian factor on two indices wrapped with an ordering that resolves
\* the first and not the second, the estimate holding both keys
C8_Witness ==
    /\ out.op = "construct"
    /\ wrapped.kind = "HessianFactor"
    /\ Len(wrapped.gaussian.keys) = 2
    /\ wrapped.gaussian.keys[1] < Len(wrapped.ordering)
    /\ wrapped.gaussian.keys[2] >= Len(wrapped.ordering)
    /\ wrapped.ordering[wrapped.gaussian.keys[1] + 1] \in DOMAIN wrapped.lin_points
    /\ out.throws = DecodingError
    /\ factor = NoFactor

\* C9: round trip: for every model and every vector v of its dimension,
\* unwhiten(whiten(v)) = v, except for a Constrained model with a zero sigma
\* at a component where v is not zero.
C9_RoundTrip ==
    (out.op = "unwhiten" /\ out.pre # <<>>) =>
        \/ out.val = out.pre
        \/ /\ model.kind = "Constrained"
           /\ \E i \in 1..model.dim_ : model.sigmas_[i] = Zero /\ out.pre[i] # Zero

\* C10: Mahalanobis(v) = <whiten(v), whiten(v)> for every model that is not
\* Constrained, with the model's own whiten.
C10_MahalanobisConsistent ==
    (out.op = "Mahalanobis" /\ model.kind # "Constrained") =>
        out.val = inner_prod(whiten(model, out.v), whiten(model, out.v))

DimensionMismatch == "DimensionMismatch"

\* C11: whiten, unwhiten and Mahalanobis of any model, Isotropic and Unit
\* among them, fail with DimensionMismatch on a vector whose length is not
\* the dimension of the model; hence a whitening call that returns, returns
\* a vector as long as the dimension of the model.
C11_DimensionChecked ==
    (out.op \in {"whiten", "unwhiten", "Mahalanobis"}) =>
        /\ (Len(out.v) # model.dim_) => (out.throws = DimensionMismatch)
        /\ (out.throws = "none" /\ out.op # "Mahalanobis") =>
                (Len(out.val) = model.dim_)

\* C12: the named constructors validate: Diagonal and Isotropic models are
\* made only of finite sigmas greater than zero, a zero sigma being accepted
\* by the Constrained constructors alone; so no model other than a
\* Constrained one has a zero sigma, whatever is called on it.
C12_FactoriesValidate ==
    (model.kind \in {"Diagonal", "Isotropic", "Unit"}) =>
        \A i \in 1..model.dim_ :
            /\ IsFinite(model.sigmas_[i]) /\ model.sigmas_[i].n > 0
            /\ IsFinite(model.invsigmas_[i])

\* C13: no public operation changes an object once it is constructed: whiten,
\* unwhiten, Mahalanobis, Whiten and WhitenInPlace leave the noise model
\* (dimension, R, sigmas, invsigmas) as it was, WhitenInPlace changing its
\* matrix argument alone; error, relinearize and equals leave the keys,
\* linearization points and blocks of a LinearizedFactor as they were, and
\* relinearize returns a linear factor of its own.
C13_Immutable ==
    [][/\ (model # NoModel) => (model' = model)
       /\ (factor # NoFactor) => (factor' = factor /\ wrapped' = wrapped)
       /\ (out'.op = "WhitenInPlace") => (model' = model /\ out'.arg = H)
       /\ (out'.op = "linearize" /\ out'.throws = "none") =>
            (out'.val.kind \in {"JacobianFactor", "HessianFactor"} /\ factor' = factor)]_vars

\* WhitenInPlace of a Diagonal model has changed H
C13_Witness ==
    /\ model.kind = "Diagonal"
    /\ out.op = "WhitenInPlace"
    /\ out.throws = "none"
    /\ H # out.arg

C15_Structure ==
    (factor # NoFactor) =>
        LET view == IF factor.kind = "LinearizedJacobianFactor" THEN factor.Ab_
                    ELSE factor.info_
        IN  /\ Len(factor.keys_) = nBlocks(view) - 1
            /\ BlockDim(view, nBlocks(view)) = 1
            /\ \A i \in 1..Len(factor.keys_) :
                BlockDim(view, i) = Len(factor.lin_points_[factor.keys_[i]])

\* C16: for every model that is not Constrained and every matrix H of dim
\* rows, column j of Whiten(H) is whiten(column j of H), and after
\* WhitenInPlace(H) the matrix H is Whiten of what it was; for a Diagonal
\* model row i of H is scaled by invsigmas[i].
C16_WhitenColumns ==
    (out.op \in {"Whiten", "WhitenInPlace"} /\ model.kind # "Constrained") =>
        LET result == IF out.op = "Whiten" THEN out.val ELSE H
        IN  /\ out.throws = "none"
            /\ Len(result) = model.dim_
            /\ NumCols(result) = NumCols(out.arg)
            /\ \A j \in 1..NumCols(out.arg) :
                Column(result, j) = whiten(model, Column(out.arg, j))
            /\ (model.kind = "Diagonal") =>
                \A i \in 1..model.dim_ : \A j \in 1..NumCols(out.arg) :
                    result[i][j] = DMul(out.arg[i][j], model.invsigmas_[i])

\* WhitenInPlace of a Diagonal model of sigmas (2, 2) on a matrix of two
\* columns: H has changed
C16_Witness ==
    /\ model.kind = "Diagonal"
    /\ model.sigmas_ = VecOf(<<2, 2>>)
    /\ out.op = "WhitenInPlace"
    /\ NumCols(out.arg) = 2
    /\ H # out.arg

\* C17: for every dimension dim and every vector v of that length,
\* Isotropic::Sigma(dim, 1.0) and Unit::Create(dim) return the same from
\* whiten(v), unwhiten(v) and Mahalanobis(v): whiten and unwhiten (and Whiten)
\* of Unit are the identity and its Mahalanobis(v) is <v, v>.
C17_IsotropicUnit ==
    (/\ out.op \in {"whiten", "unwhiten", "Mahalanobis"}
     /\ model \in {Isotropic_Sigma(model.dim_, One), Unit_Create(model.dim_)}) =>
        LET squares == SumSeq([i \in 1..Len(out.v) |-> DMul(out.v[i], out.v[i])])
        IN  /\ (out.op \in {"whiten", "unwhiten"}) => (out.val = out.v)
            /\ (out.op = "Mahalanobis") => (out.val = squares)
            /\ (model.kind = "Unit") =>
                    (Whiten(model, AsColumn(out.v)) = Returns(AsColumn(out.v)))

\* Mahalanobis of a nonzero vector of length 2 under Isotropic::Sigma(2, 1.0)
C17_Witness ==
    /\ model = Isotropic_Sigma(2, One)
    /\ model.kind = "Isotropic"
    /\ out.op = "Mahalanobis"
    /\ out.v = VecOf(<<1, -1>>)
    /\ out.val = D(2)

LinearizedFactor_error(f, c) ==
    IF f.kind = "LinearizedJacobianFactor" THEN LinearizedJacobianFactor_error(f, c)
    ELSE LinearizedHessianFactor_error(f, c)

\* C18: either variant: with L a LinearizedFactor, F1 = L.relinearize(c1,
\* ordering) and L1 the LinearizedFactor wrapping F1 with the same ordering
\* at c1, L1.error(c2) = L.error(c2) for every estimate c2, and the same
\* holds after any chain of such steps against the factor the chain started
\* from; L1 has the keys of L and c1 as its linearization point.
C18_RewrapPreservesError ==
    (out.op = "rewrap") =>
        /\ factor.kind = out.first.kind
        /\ factor.keys_ = out.first.keys_
        /\ factor.lin_points_ = out.c
        /\ \A c2 \in Estimates(factor.keys_) :
            /\ LinearizedFactor_error(factor, c2).throws = "none"
            /\ LinearizedFactor_error(factor, c2) = LinearizedFactor_error(out.first, c2)

\* a Jacobian factor on two keys, re-centred once, away from where it was
\* built and under an ordering that renumbers its keys: the right-hand side
\* has moved, and the error where it now stands is not zero
C18_Witness ==
    /\ out.op = "rewrap"
    /\ ~out.chained
    /\ factor.kind = "LinearizedJacobianFactor"
    /\ Len(factor.keys_) = 2
    /\ out.first.lin_points_ # factor.lin_points_
    /\ b(factor) # b(out.first)
    /\ out.ordering = <<"x3", "x1", "x2">>
    /\ LinearizedFactor_error(factor, factor.lin_points_).val # Zero

\* a Hessian factor at the end of a chain of two steps or more: the linear
\* and the constant term have moved with the linearization point
C18_WitnessChain ==
    /\ out.op = "rewrap"
    /\ out.chained
    /\ factor.kind = "LinearizedHessianFactor"
    /\ Len(factor.keys_) = 2
    /\ out.first.lin_points_ # factor.lin_points_
    /\ linearTerm(factor) # linearTerm(out.first)
    /\ constantTerm(factor) # constantTerm(out.first)

====================
